---------------------------- MODULE Spec2Model ----------------------------
(***************************************************************************)
(* gunz (src/src/main.cpp): a single-threaded frame loop that samples the  *)
(* keyboard, detects double presses, applies jump / dash / held-key        *)
(* impulses to the player and resolves gravity and collisions against a    *)
(* floor and a list of walls (apply_gravity).                              *)
(*                                                                         *)
(* Positions are floats in the source; every value the program computes is *)
(* an integer far below 2^24 (integer start values, integer deltas, snaps  *)
(* to integer wall edges), so they are modelled as integers.  Time is in   *)
(* milliseconds.                                                           *)
(***************************************************************************)
EXTENDS Integers, Sequences, FiniteSets, TLC

VARIABLES
    player,        \* Player: [x, y, width, height, delta_x, delta_y]
    floor,         \* the floor Rectangle handed to apply_gravity
    walls,         \* the ordered wall list handed to apply_gravity
    double_press,  \* KeyDoublePress: [key, last_pressed]
    key_down,      \* keys the input library reports as held this frame
    key_pressed,   \* keys the input library reports as freshly pressed
    pressed,       \* main's local `pressed`: the frame's double-press key
    clock,         \* std::chrono::system_clock, in ms
    pc,            \* position in the loop body: "input", "physics", "draw"
    dp_before,     \* history: double_press as is_double_press found it
    presses,       \* history: the last fresh movement-key presses examined
    before         \* history: the player as apply_gravity received it

vars == <<player, floor, walls, double_press, key_down, key_pressed,
          pressed, clock, pc, dp_before, presses, before>>

-----------------------------------------------------------------------------
(* Program constants *)

WIDTH == 800
HEIGHT == 600
TOP_OF_FLOOR == HEIGHT - 20
PLAYER_MOVE_SPEED == 5
PLAYER_DASH_SPEED == 50
JUMP_DELTA == -20

\* raylib key codes used by the program
KEY_NULL == 0
KEY_SPACE == 32
KEY_A == 65
KEY_D == 68
KEY_S == 83
KEY_W == 87

\* main's scan array `keys` and the full set of keys the loop polls
keys == <<KEY_W, KEY_A, KEY_S, KEY_D>>
AllKeys == {KEY_W, KEY_A, KEY_S, KEY_D, KEY_SPACE}

\* std::chrono::milliseconds{300} in is_double_press
DOUBLE_PRESS_MS == 300

-----------------------------------------------------------------------------
(* Bounds of the model *)

\* the loop is followed until the clock would pass MaxTime
MaxTime == 525

\* at most this many keys are held at the same time
MaxKeysDown == 2

\* durations of one frame (EndDrawing waits for the 60 FPS budget; a frame
\* can take any longer time)
FrameTimes == {125, 150, 175}

\* the resolver's scenarios: the player's x is one of GridX + 1 columns 5
\* apart, its y one of GridY + 1 rows, its delta_y at most MaxDeltaY
GridX == 26
GridY == 75
MaxDeltaY == 11

-----------------------------------------------------------------------------
(* Helpers *)

Min(a, b) == IF a < b THEN a ELSE b
Max(a, b) == IF a > b THEN a ELSE b
Abs(a) == IF a < 0 THEN -a ELSE a

Rect(x, y, w, h) == [x |-> x, y |-> y, width |-> w, height |-> h]

\* raylib CheckCollisionRecs: strict overlap on both axes
CheckCollisionRecs(r1, r2) ==
    /\ r1.x < r2.x + r2.width
    /\ r1.x + r1.width > r2.x
    /\ r1.y < r2.y + r2.height
    /\ r1.y + r1.height > r2.y

\* raylib GetCollisionRec: the overlap rectangle, all zero when there is none
GetCollisionRec(r1, r2) ==
    LET left   == Max(r1.x, r2.x)
        right  == Min(r1.x + r1.width, r2.x + r2.width)
        top    == Max(r1.y, r2.y)
        bottom == Min(r1.y + r1.height, r2.y + r2.height)
    IN  IF left < right /\ top < bottom
        THEN Rect(left, top, right - left, bottom - top)
        ELSE Rect(0, 0, 0, 0)

-----------------------------------------------------------------------------
(* Player (lines 16-35) *)

\* mutant of jump: a jump only from rest
jump_WhenAtRest(p) ==
    IF p.delta_y = 0 THEN [p EXCEPT !.delta_y = JUMP_DELTA] ELSE p

\* Player::jump
jump(p) == [p EXCEPT !.delta_y = JUMP_DELTA]

\* Player::dash
dash(p, key) ==
    CASE key = KEY_A -> [p EXCEPT !.delta_x = p.delta_x - PLAYER_DASH_SPEED]
      [] key = KEY_D -> [p EXCEPT !.delta_x = p.delta_x + PLAYER_DASH_SPEED]
      [] OTHER       -> p

-----------------------------------------------------------------------------
(* KeyDoublePress (lines 113-132) *)

\* mutant of IsMatch: the window's end is included
IsMatch_Inclusive(dp, current_key, now) ==
    /\ dp.key = current_key
    /\ now <= dp.last_pressed + DOUBLE_PRESS_MS

\* the test of lines 121-122
IsMatch(dp, current_key, now) ==
    /\ dp.key = current_key
    /\ now < dp.last_pressed + DOUBLE_PRESS_MS

\* mutants of ScanStep: a matching press is not recorded; a press that does
\* not match leaves a recorded press alone while that one is still recent
ScanStep_RecordOnMiss(st, current_key, now) ==
    IF IsMatch(st.dp, current_key, now)
    THEN [dp |-> st.dp, double_pressed |-> current_key]
    ELSE [dp |-> [key |-> current_key, last_pressed |-> now],
          double_pressed |-> st.double_pressed]
ScanStep_KeepPending(st, current_key, now) ==
    IF IsMatch(st.dp, current_key, now)
    THEN [dp |-> [key |-> current_key, last_pressed |-> now],
          double_pressed |-> current_key]
    ELSE IF st.dp.key # KEY_NULL /\ now < st.dp.last_pressed + DOUBLE_PRESS_MS
         THEN st
         ELSE [dp |-> [key |-> current_key, last_pressed |-> now],
               double_pressed |-> st.double_pressed]

\* one iteration of the scan loop, for a freshly pressed current_key:
\* st = [dp, double_pressed]
ScanStep(st, current_key, now) ==
    [dp |-> [key |-> current_key, last_pressed |-> now],
     double_pressed |-> IF IsMatch(st.dp, current_key, now)
                        THEN current_key
                        ELSE st.double_pressed]

\* the loop of lines 118-128 from index i on; fresh is the set of keys for
\* which IsKeyPressed is true, now the clock's reading
RECURSIVE ScanKeys(_, _, _, _)
ScanKeys(i, st, fresh, now) ==
    IF i > Len(keys) THEN st
    ELSE IF keys[i] \in fresh
         THEN ScanKeys(i + 1, ScanStep(st, keys[i], now), fresh, now)
         ELSE ScanKeys(i + 1, st, fresh, now)

\* the presses the loop of lines 118-128 examines from index i on, added to
\* log: key, clock reading, and whether the press set double_pressed
RECURSIVE ScanLog(_, _, _, _, _)
ScanLog(i, st, fresh, now, log) ==
    IF i > Len(keys) THEN log
    ELSE IF keys[i] \in fresh
         THEN LET st2 == ScanStep(st, keys[i], now)
              IN  ScanLog(i + 1, st2, fresh, now,
                      Append(log, [key |-> keys[i], at |-> now,
                                   event |-> st2.double_pressed = keys[i]]))
         ELSE ScanLog(i + 1, st, fresh, now, log)

\* the last three entries of a log
KeepLast(log) ==
    IF Len(log) <= 3 THEN log ELSE SubSeq(log, Len(log) - 2, Len(log))

\* KeyDoublePress::is_double_press: the detector afterwards and the key
\* returned (KEY_NULL for none)
is_double_press(dp, fresh, now) ==
    ScanKeys(1, [dp |-> dp, double_pressed |-> KEY_NULL], fresh, now)

-----------------------------------------------------------------------------
(* apply_gravity (lines 37-111) *)

\* mutant of GravityStep: the clamp is missing
GravityStep_NoClamp(delta_y) == delta_y + 1

\* lines 39-42
GravityStep(delta_y) ==
    IF delta_y + 1 >= 10 THEN 10 ELSE delta_y + 1

\* lines 47-51: the box around the current and the tentative position (the
\* differences handed to abs are whole numbers, so an integer abs and a
\* floating one agree)
NextRect(p, next_x, next_y) ==
    Rect(Min(next_x, p.x), Min(next_y, p.y),
         Abs(p.x - next_x) + p.width, Abs(p.y - next_y) + p.height)

\* mutant of OneBelow: a probe one unit tall
OneBelow_OneTall(p, next_x, next_y) ==
    Rect(next_x, next_y + p.height - 1, p.width, 1)

\* lines 53-58: the floor probe
OneBelow(p, next_x, next_y) ==
    Rect(next_x, next_y + p.height - 1, p.width, 2)

\* line 69: the wall is considered only when the box overlaps it
Collides(next_rect, wall) ==
    LET collision == GetCollisionRec(next_rect, wall)
    IN  collision.width # 0 \/ collision.height # 0

\* mutant of WallSnapY: the snap onto the wall forgets the player's height
WallSnapY_NoHeight(p, next_rect, wall, next_y) ==
    LET started_above == p.y + p.height <= wall.y
        started_below == wall.y + wall.height <= p.y
        ended_above   == next_rect.y + next_rect.height <= wall.y
        ended_below   == wall.y + wall.height <= next_rect.y
        y1 == IF started_above /\ ~ended_above THEN wall.y ELSE next_y
    IN  IF started_below /\ ~ended_below THEN wall.y + wall.height ELSE y1

\* lines 71-82: the y a colliding wall snaps to (next_y when it does not)
WallSnapY(p, next_rect, wall, next_y) ==
    LET started_above == p.y + p.height <= wall.y
        started_below == wall.y + wall.height <= p.y
        ended_above   == next_rect.y + next_rect.height <= wall.y
        ended_below   == wall.y + wall.height <= next_rect.y
        y1 == IF started_above /\ ~ended_above
              THEN wall.y - p.height ELSE next_y
    IN  IF started_below /\ ~ended_below THEN wall.y + wall.height ELSE y1

\* mutant of WallSnapX: the snap against the wall forgets the player's width
WallSnapX_NoWidth(p, next_rect, wall, next_x) ==
    LET started_left  == p.x + p.width <= wall.x
        started_right == wall.x + wall.width <= p.x
        ended_left    == next_rect.x + next_rect.width <= wall.x
        ended_right   == wall.x + wall.width <= next_rect.x
        x1 == IF started_left /\ ~ended_left THEN wall.x ELSE next_x
    IN  IF started_right /\ ~ended_right THEN wall.x + wall.width ELSE x1

\* mutant of WallSnapX: a wall stops the player only where the tentative
\* position itself reaches into the wall
WallSnapX_EndOverlap(p, next_rect, wall, next_x) ==
    LET started_left  == p.x + p.width <= wall.x
        started_right == wall.x + wall.width <= p.x
        ended_left    == next_rect.x + next_rect.width <= wall.x
        ended_right   == wall.x + wall.width <= next_rect.x
        inside        == next_x < wall.x + wall.width /\ wall.x < next_x + p.width
        x1 == IF started_left /\ ~ended_left /\ inside
              THEN wall.x - p.width ELSE next_x
    IN  IF started_right /\ ~ended_right /\ inside
        THEN wall.x + wall.width ELSE x1

\* lines 92-103: the x a colliding wall snaps to (next_x when it does not)
WallSnapX(p, next_rect, wall, next_x) ==
    LET started_left  == p.x + p.width <= wall.x
        started_right == wall.x + wall.width <= p.x
        ended_left    == next_rect.x + next_rect.width <= wall.x
        ended_right   == wall.x + wall.width <= next_rect.x
        x1 == IF started_left /\ ~ended_left
              THEN wall.x - p.width ELSE next_x
    IN  IF started_right /\ ~ended_right THEN wall.x + wall.width ELSE x1

\* mutant of ResolveWalls: the loop ends at the first wall that collides
RECURSIVE ResolveWalls_FirstOnly(_, _, _, _, _)
ResolveWalls_FirstOnly(p, next_rect, ws, i, next) ==
    IF i > Len(ws) THEN next
    ELSE IF Collides(next_rect, ws[i])
         THEN [x |-> WallSnapX(p, next_rect, ws[i], next.x),
               y |-> WallSnapY(p, next_rect, ws[i], next.y)]
         ELSE ResolveWalls_FirstOnly(p, next_rect, ws, i + 1, next)

\* the loop of lines 66-106 from wall i on; next = [x, y]
RECURSIVE ResolveWalls(_, _, _, _, _)
ResolveWalls(p, next_rect, ws, i, next) ==
    IF i > Len(ws) THEN next
    ELSE IF Collides(next_rect, ws[i])
         THEN ResolveWalls(p, next_rect, ws, i + 1,
                  [x |-> WallSnapX(p, next_rect, ws[i], next.x),
                   y |-> WallSnapY(p, next_rect, ws[i], next.y)])
         ELSE ResolveWalls(p, next_rect, ws, i + 1, next)

\* line 60: whether the floor probe overlaps the floor
FloorHit(p, fl, next_x, next_y) ==
    CheckCollisionRecs(OneBelow(p, next_x, next_y), fl)

\* mutant of FloorSnapY: the snap onto the floor forgets the player's height
FloorSnapY_NoHeight(p, fl, hit, next_y) ==
    IF hit THEN fl.y ELSE next_y

\* line 61: next_y after the floor check
FloorSnapY(p, fl, hit, next_y) ==
    IF hit THEN fl.y - p.height ELSE next_y

\* mutants of FloorDeltaY: delta_y is never zeroed; delta_y is zeroed
\* whatever its sign
FloorDeltaY_NeverZero(hit, delta_y) == delta_y
FloorDeltaY_AnySign(hit, delta_y) == IF hit THEN 0 ELSE delta_y

\* lines 62-63: delta_y after the floor check
FloorDeltaY(hit, delta_y) ==
    IF hit /\ delta_y > 0 THEN 0 ELSE delta_y

\* mutant of Commit: delta_x is kept
Commit_KeepsDeltaX(p, next, delta_y) ==
    [p EXCEPT !.x = next.x, !.y = next.y, !.delta_y = delta_y]

\* lines 108-110: the position is committed, the horizontal impulse dropped
Commit(p, next, delta_y) ==
    [p EXCEPT !.x = next.x, !.delta_x = 0, !.y = next.y, !.delta_y = delta_y]

\* mutant of apply_gravity: a wall that stops the player vertically also
\* stops the fall
apply_gravity_WallStopsFall(p, fl, ws) ==
    LET dy        == GravityStep(p.delta_y)
        next_y    == p.y + dy
        next_x    == p.x + p.delta_x
        next_rect == NextRect(p, next_x, next_y)
        hit       == FloorHit(p, fl, next_x, next_y)
        floor_y   == FloorSnapY(p, fl, hit, next_y)
        next      == ResolveWalls(p, next_rect, ws, 1,
                         [x |-> next_x, y |-> floor_y])
    IN  Commit(p, next, IF next.y # floor_y THEN 0 ELSE FloorDeltaY(hit, dy))

\* the whole function: the player afterwards
apply_gravity(p, fl, ws) ==
    LET dy        == GravityStep(p.delta_y)
        next_y    == p.y + dy
        next_x    == p.x + p.delta_x
        next_rect == NextRect(p, next_x, next_y)
        hit       == FloorHit(p, fl, next_x, next_y)
        next      == ResolveWalls(p, next_rect, ws, 1,
                         [x |-> next_x, y |-> FloorSnapY(p, fl, hit, next_y)])
    IN  Commit(p, next, FloorDeltaY(hit, dy))

-----------------------------------------------------------------------------
(* main (lines 134-198) *)

\* lines 137-143
InitPlayer ==
    [x |-> 100, y |-> 100, width |-> 20, height |-> 20,
     delta_x |-> 0, delta_y |-> 0]

\* lines 145-150
MainFloor == Rect(-100, TOP_OF_FLOOR, 1000, 20)

\* lines 152-154
MainWalls == <<Rect(100, TOP_OF_FLOOR - 100, 20, 100), Rect(600, 200, 100, 20)>>

\* the state when the loop is first entered; no key event has been polled
Init ==
    /\ player = InitPlayer
    /\ floor = MainFloor
    /\ walls = MainWalls
    /\ double_press = [key |-> KEY_NULL, last_pressed |-> 0]
    /\ key_down = {}
    /\ key_pressed = {}
    /\ pressed = KEY_NULL
    /\ clock = 0
    /\ pc = "input"
    /\ dp_before = double_press
    /\ presses = <<>>
    /\ before = player

\* mutant of HeldMove: right is looked at only when left is not held
HeldMove_Exclusive(p, down) ==
    IF KEY_A \in down
    THEN [p EXCEPT !.delta_x = p.delta_x - PLAYER_MOVE_SPEED]
    ELSE IF KEY_D \in down
         THEN [p EXCEPT !.delta_x = p.delta_x + PLAYER_MOVE_SPEED] ELSE p

\* lines 170-173: the held-key impulses
HeldMove(p, down) ==
    LET p1 == IF KEY_A \in down
              THEN [p EXCEPT !.delta_x = p.delta_x - PLAYER_MOVE_SPEED] ELSE p
    IN  IF KEY_D \in down
        THEN [p1 EXCEPT !.delta_x = p1.delta_x + PLAYER_MOVE_SPEED] ELSE p1

\* lines 167-175: detect, dash, held keys, jump
HandleInput ==
    /\ pc = "input"
    /\ LET r  == is_double_press(double_press, key_pressed, clock)
           p1 == HeldMove(dash(player, r.double_pressed), key_down)
       IN  /\ double_press' = r.dp
           /\ pressed' = r.double_pressed
           /\ player' = IF KEY_SPACE \in key_pressed THEN jump(p1) ELSE p1
    /\ dp_before' = double_press
    /\ presses' = KeepLast(ScanLog(1, [dp |-> double_press,
                                       double_pressed |-> KEY_NULL],
                                   key_pressed, clock, presses))
    /\ pc' = "physics"
    /\ UNCHANGED <<floor, walls, key_down, key_pressed, clock, before>>

\* line 177
ApplyGravity ==
    /\ pc = "physics"
    /\ player' = apply_gravity(player, floor, walls)
    /\ before' = player
    /\ pc' = "draw"
    /\ UNCHANGED <<floor, walls, double_press, key_down, key_pressed,
                   pressed, clock, dp_before, presses>>

\* lines 179-196: drawing changes nothing; EndDrawing waits out the frame and
\* polls the keyboard for the next iteration: a key is freshly pressed when
\* it is down now and was up at the previous poll.  The clock readings of
\* one iteration fall in the same millisecond.
EndDrawing ==
    /\ pc = "draw"
    /\ \E dt \in FrameTimes, down \in SUBSET AllKeys :
          /\ Cardinality(down) <= MaxKeysDown
          /\ clock + dt <= MaxTime
          /\ clock' = clock + dt
          /\ key_down' = down
          /\ key_pressed' = down \ key_down
    /\ pc' = "input"
    /\ UNCHANGED <<player, floor, walls, double_press, pressed, dp_before,
                   presses, before>>

Next == HandleInput \/ ApplyGravity \/ EndDrawing

Spec == Init /\ [][Next]_vars

-----------------------------------------------------------------------------
(* The loop with one player tapping the up and left keys, in frames short   *)
(* enough for three presses of a key inside the double-press window         *)

TapKeys == {KEY_W, KEY_A}
TapFrameTimes == {50, 150}

\* the tapping is followed until the clock would pass MaxTapTime
MaxTapTime == 500

\* lines 179-196, as EndDrawing
EndDrawingTaps ==
    /\ pc = "draw"
    /\ \E dt \in TapFrameTimes, down \in SUBSET TapKeys :
          /\ clock + dt <= MaxTapTime
          /\ clock' = clock + dt
          /\ key_down' = down
          /\ key_pressed' = down \ key_down
    /\ pc' = "input"
    /\ UNCHANGED <<player, floor, walls, double_press, pressed, dp_before,
                   presses, before>>

NextTaps == HandleInput \/ ApplyGravity \/ EndDrawingTaps

SpecTaps == Init /\ [][NextTaps]_vars

-----------------------------------------------------------------------------
(* apply_gravity on its own: the player, the floor and the wall list are    *)
(* drawn from a scene built around the player's size and speeds             *)

\* a floor whose two ends lie inside the grid
SceneFloor == Rect(0, 70, 100, 20)

\* a pillar standing on the floor, a wall hanging beside it, a low step
ScenePillar == Rect(30, 50, 20, 20)
SceneSide == Rect(55, 30, 10, 25)
SceneStep == Rect(70, 62, 20, 8)

\* the wall lists: one order and its reverse
SceneWalls ==
    { <<ScenePillar, SceneSide, SceneStep>>,
      <<SceneStep, SceneSide, ScenePillar>> }

\* horizontal impulses lines 168-173 hand over: none, a held key, a dash
\* with its key held
SceneDeltaX == {0, -5, 5, -55, 55}

SceneX == {5 * i - 25 : i \in 0..GridX}
SceneY == {5 + j : j \in 0..GridY}
SceneDeltaY == JUMP_DELTA..MaxDeltaY

InitResolver ==
    /\ floor = SceneFloor
    /\ walls \in SceneWalls
    /\ player \in [x : SceneX, y : SceneY, width : {20}, height : {20},
                   delta_x : SceneDeltaX, delta_y : SceneDeltaY]
    /\ double_press = [key |-> KEY_NULL, last_pressed |-> 0]
    /\ key_down = {}
    /\ key_pressed = {}
    /\ pressed = KEY_NULL
    /\ clock = 0
    /\ pc = "physics"
    /\ dp_before = double_press
    /\ presses = <<>>
    /\ before = player

SpecResolver == InitResolver /\ [][ApplyGravity]_vars

-----------------------------------------------------------------------------
(* apply_gravity on the floor and the walls main builds. The player is      *)
(* drawn from the places where it can meet them: around the first wall and  *)
(* the floor beneath it, around the ends of the second wall, and over the   *)
(* two ends of the floor; elsewhere nothing is within reach of one frame's  *)
(* movement. x is a multiple of 5, as every move and every snap leaves it.  *)

\* the player's rectangle overlaps the wall
Overlaps(p, wall) == CheckCollisionRecs(Rect(p.x, p.y, p.width, p.height), wall)

\* the places, as [x : lowest and highest multiple of 5, y : lowest, highest]
ShippedWindows ==
    { [xlo |-> 5,    xhi |-> 35,  ylo |-> 445, yhi |-> 500],
      [xlo |-> 5,    xhi |-> 35,  ylo |-> 540, yhi |-> 560],
      [xlo |-> 105,  xhi |-> 120, ylo |-> 165, yhi |-> 245],
      [xlo |-> 136,  xhi |-> 151, ylo |-> 165, yhi |-> 245],
      [xlo |-> -23,  xhi |-> -12, ylo |-> 540, yhi |-> 560],
      [xlo |-> 168,  xhi |-> 179, ylo |-> 540, yhi |-> 560] }

ShippedPositions ==
    UNION { { [x |-> 5 * i, y |-> j] : i \in w.xlo..w.xhi, j \in w.ylo..w.yhi }
            : w \in ShippedWindows }

\* horizontal impulses lines 168-173 hand over: none, a held key, a dash, a
\* dash with its key held
ShippedDeltaX == {0, -5, 5, -50, 50, -55, 55}

InitShipped ==
    /\ floor = MainFloor
    /\ walls = MainWalls
    /\ \E pos \in ShippedPositions, dx \in ShippedDeltaX,
          dy \in JUMP_DELTA..10 :
          player = [x |-> pos.x, y |-> pos.y, width |-> 20, height |-> 20,
                    delta_x |-> dx, delta_y |-> dy]
    /\ \A i \in 1..Len(walls) : ~Overlaps(player, walls[i])
    /\ double_press = [key |-> KEY_NULL, last_pressed |-> 0]
    /\ key_down = {}
    /\ key_pressed = {}
    /\ pressed = KEY_NULL
    /\ clock = 0
    /\ pc = "physics"
    /\ dp_before = double_press
    /\ presses = <<>>
    /\ before = player

SpecShipped == InitShipped /\ [][ApplyGravity]_vars

-----------------------------------------------------------------------------
(* The loop with the keyboard left alone                                    *)

\* the clock is followed up to MaxIdleTime and stands still from there; with
\* no key pressed is_double_press never reads it
MaxIdleTime == 1000

\* lines 179-196, as EndDrawing: a frame of 17 ms, no key down
EndDrawingIdle ==
    /\ pc = "draw"
    /\ clock' = IF clock + 17 <= MaxIdleTime THEN clock + 17 ELSE clock
    /\ key_down' = {}
    /\ key_pressed' = {}
    /\ pc' = "input"
    /\ UNCHANGED <<player, floor, walls, double_press, pressed, dp_before,
                   presses, before>>

NextIdle == HandleInput \/ ApplyGravity \/ EndDrawingIdle

\* the loop of lines 166-197 keeps running
SpecIdle == Init /\ [][NextIdle]_vars /\ WF_vars(NextIdle)

-----------------------------------------------------------------------------
(* What a finished call of apply_gravity looked at, read off `before`, the  *)
(* player it received                                                       *)

\* delta_y after the gravity step, and the tentative position (lines 39-45)
CallDeltaY == GravityStep(before.delta_y)
CallNextX == before.x + before.delta_x
CallNextY == before.y + CallDeltaY
CallRect == NextRect(before, CallNextX, CallNextY)

\* the floor probe overlapped the floor (line 60)
CallFloorHit == FloorHit(before, floor, CallNextX, CallNextY)

\* the vertical test of a wall fired (lines 69, 77, 80), r being CallRect
VFires(r, wall) ==
    /\ Collides(r, wall)
    /\ \/ /\ before.y + before.height <= wall.y
          /\ ~(r.y + r.height <= wall.y)
       \/ /\ wall.y + wall.height <= before.y
          /\ ~(wall.y + wall.height <= r.y)

\* the horizontal test of a wall fired (lines 69, 98, 101), r being CallRect
HFires(r, wall) ==
    /\ Collides(r, wall)
    /\ \/ /\ before.x + before.width <= wall.x
          /\ ~(r.x + r.width <= wall.x)
       \/ /\ wall.x + wall.width <= before.x
          /\ ~(wall.x + wall.width <= r.x)

\* the snaps of a wall whose test fired (lines 78, 81, 99, 102)
VSnap(wall) ==
    IF wall.y + wall.height <= before.y
    THEN wall.y + wall.height ELSE wall.y - before.height
HSnap(wall) ==
    IF wall.x + wall.width <= before.x
    THEN wall.x + wall.width ELSE wall.x - before.width

\* the walls (by index) whose vertical, horizontal test fired
FiredV == LET r == CallRect IN {i \in 1..Len(walls) : VFires(r, walls[i])}
FiredH == LET r == CallRect IN {i \in 1..Len(walls) : HFires(r, walls[i])}

\* the largest member of a non-empty set of indices
Last(S) == CHOOSE i \in S : \A j \in S : j <= i

-----------------------------------------------------------------------------
(* Claims *)

\* C1: after every execution of apply_gravity player.delta_x is 0, whatever
\* impulse the frame's keys produced and whatever the floor and the walls
\* did to the position; it is 0 whenever the loop is not between the input
\* phase and apply_gravity.
C1_DeltaXReset == pc # "physics" => player.delta_x = 0

\* C1 witness: a dash plus held-key impulse that ran into a wall.
C1_Witness ==
    /\ pc = "draw"
    /\ before.delta_x = 55
    /\ FiredH # {}
    /\ player.delta_x = 0

\* C2: the gravity step maps delta_y to min(delta_y + 1, 10): delta_y + 1
\* from delta_y <= 9, 10 from delta_y >= 9; what the frame leaves is that
\* value, or 0 where the floor check zeroed it, and never more than 10.
C2_GravityClamp ==
    pc = "draw" =>
        LET g == IF before.delta_y <= 9 THEN before.delta_y + 1 ELSE 10
        IN  /\ before.delta_y >= 9 => g = 10
            /\ player.delta_y <= 10
            /\ player.delta_y \in {g, 0}
            /\ ~CheckCollisionRecs(
                   Rect(before.x + before.delta_x,
                        before.y + g + before.height - 1, before.width, 2),
                   floor) => player.delta_y = g

\* C2 witness: a fall already at the clamp stays at 10.
C2_Witness ==
    /\ pc = "draw"
    /\ before.delta_y >= 10
    /\ player.delta_y = 10

\* C3 as claimed: whenever the floor probe overlaps the floor and delta_y
\* after gravity is >= 0, the frame ends with y = floor.y - height and
\* delta_y = 0.
C3_Original ==
    (pc = "draw" /\ CallFloorHit /\ CallDeltaY >= 0) =>
        /\ player.y = floor.y - before.height
        /\ player.delta_y = 0

\* C3 amended: whenever the floor probe overlaps the floor and delta_y after
\* gravity is >= 0, the frame ends with delta_y = 0, and with
\* y = floor.y - height unless the vertical test of a wall fires.
C3_FloorResting ==
    (pc = "draw" /\ CallFloorHit /\ CallDeltaY >= 0) =>
        /\ player.delta_y = 0
        /\ FiredV = {} => player.y = floor.y - before.height

\* C3 witness: a player falling at speed into the floor band, brought back
\* up to rest on the floor.
C3_Witness ==
    /\ pc = "draw"
    /\ CallFloorHit
    /\ CallDeltaY = 10
    /\ CallNextY > floor.y - before.height
    /\ player.y = floor.y - before.height
    /\ player.delta_y = 0

\* C4 as claimed: whenever the floor probe overlaps the floor and delta_y
\* after gravity is < 0, the frame ends with y = floor.y - height and
\* delta_y at its post-gravity value.
C4_Original ==
    (pc = "draw" /\ CallFloorHit /\ CallDeltaY < 0) =>
        /\ player.y = floor.y - before.height
        /\ player.delta_y = CallDeltaY

\* C4 amended: whenever the floor probe overlaps the floor and delta_y after
\* gravity is < 0, the frame ends with delta_y at its post-gravity value
\* (not zeroed), and with y = floor.y - height unless the vertical test of a
\* wall fires.
C4_FloorRising ==
    (pc = "draw" /\ CallFloorHit /\ CallDeltaY < 0) =>
        /\ player.delta_y = CallDeltaY
        /\ FiredV = {} => player.y = floor.y - before.height

\* C4 witness: a rising player whose probe is in the floor is put on the
\* floor and keeps rising.
C4_Witness ==
    /\ pc = "draw"
    /\ CallFloorHit
    /\ CallDeltaY < 0
    /\ CallNextY # floor.y - before.height
    /\ player.y = floor.y - before.height
    /\ player.delta_y = CallDeltaY

\* C5: a player whose bottom edge starts at or above a wall's top edge and
\* whose swept rectangle overlaps that wall with non-zero area ends the
\* frame with y = wall.y - height, unless a later wall's vertical test
\* fires.
C5_BlockedFromAbove ==
    pc = "draw" =>
        LET r == CallRect
            fired == FiredV
        IN  \A i \in 1..Len(walls) :
                ( /\ before.y + before.height <= walls[i].y
                  /\ GetCollisionRec(r, walls[i]) # Rect(0, 0, 0, 0)
                  /\ \A j \in fired : j <= i )
                => player.y = walls[i].y - before.height

\* C5 witness: the tentative position ends with the bottom edge below the
\* wall's bottom edge, and the player is still put on the wall's top.
C5_Witness ==
    /\ pc = "draw"
    /\ \E i \in 1..Len(walls) :
          /\ before.y + before.height <= walls[i].y
          /\ GetCollisionRec(CallRect, walls[i]) # Rect(0, 0, 0, 0)
          /\ CallNextY + before.height > walls[i].y + walls[i].height
          /\ player.y = walls[i].y - before.height

\* C7: the committed x is the horizontal snap of the last wall in the list
\* whose horizontal test fired, else the tentative next_x; the committed y
\* is the vertical snap of the last wall whose vertical test fired, else the
\* floor snap, else the tentative next_y; each axis is settled on its own.
C7_PerAxisLastWall ==
    pc = "draw" =>
        LET v == FiredV
            h == FiredH
        IN  /\ player.x = IF h # {} THEN HSnap(walls[Last(h)]) ELSE CallNextX
            /\ player.y = IF v # {} THEN VSnap(walls[Last(v)])
                          ELSE IF CallFloorHit THEN floor.y - before.height
                          ELSE CallNextY

\* C7 witness: one wall fires on the vertical axis only, a wall earlier in
\* the list on the horizontal axis only, and both snaps are committed.
C7_Witness ==
    /\ pc = "draw"
    /\ \E i \in FiredV \ FiredH, j \in FiredH \ FiredV :
          /\ j < i
          /\ player.y = VSnap(walls[i]) /\ player.y # CallNextY
          /\ player.x = HSnap(walls[j]) /\ player.x # CallNextX

\* the floor probe as the claim describes it: `tall` units tall, at the
\* tentative next_x, at next_y + height - 1, as wide as the player
ProbeOverlaps(tall) ==
    CheckCollisionRecs(
        Rect(CallNextX, CallNextY + before.height - 1, before.width, tall),
        floor)

\* what the frame shows of the floor check having run its snap: a positive
\* delta_y zeroed, and, where no wall's vertical test fired, y at
\* floor.y - height in place of the tentative next_y
FloorSnapSeen(snapped) ==
    /\ player.delta_y = IF snapped /\ CallDeltaY > 0 THEN 0 ELSE CallDeltaY
    /\ FiredV = {} =>
           player.y = IF snapped THEN floor.y - before.height ELSE CallNextY

\* C10 as claimed: the floor snap and the conditional zeroing of delta_y
\* happen in a frame if and only if a probe exactly one unit tall overlaps
\* the floor.
C10_Original == pc = "draw" => FloorSnapSeen(ProbeOverlaps(1))

\* C10 amended: they happen if and only if a probe exactly two units tall
\* (same place, same width) overlaps the floor, so also when the tentative
\* bottom edge only touches the floor's top edge.
C10_FloorProbe == pc = "draw" => FloorSnapSeen(ProbeOverlaps(2))

\* C10 witness: the tentative bottom edge touches the floor's top edge; the
\* two-unit probe overlaps the floor, a one-unit probe would not, and the
\* fall is stopped.
C10_Witness ==
    /\ pc = "draw"
    /\ CallNextY + before.height = floor.y
    /\ ProbeOverlaps(2) /\ ~ProbeOverlaps(1)
    /\ CallDeltaY > 0
    /\ player.delta_y = 0

\* the movement keys freshly pressed in the frame, by place in the scan
FreshAt == {i \in 1..Len(keys) : keys[i] \in key_pressed}

\* the fresh press recorded just before the one at place i of the scan: an
\* earlier press of the same scan if there is one, else what the detector
\* held when is_double_press was called
PreviousPress(i) ==
    LET earlier == {j \in FreshAt : j < i}
    IN  IF earlier # {}
        THEN [key |-> keys[Last(earlier)], last_pressed |-> clock]
        ELSE dp_before

\* C6: a fresh press of movement key k yields the frame's double-press
\* event if and only if the previously recorded fresh press was also of k
\* and strictly less than 300 ms earlier (so not at exactly 300 ms, and
\* never after a press of another key); without such a press there is no
\* event.
C6_DoublePress ==
    pc = "physics" =>
        /\ \A i \in FreshAt :
              pressed = keys[i] <=>
                  /\ PreviousPress(i).key = keys[i]
                  /\ clock - PreviousPress(i).last_pressed < 300
        /\ (\A i \in FreshAt : pressed # keys[i]) => pressed = KEY_NULL

\* C6 witness: a second press of the same key 250 ms after the first gives
\* the event.
C6_Witness ==
    /\ pc = "physics"
    /\ KEY_A \in key_pressed
    /\ dp_before.key = KEY_A
    /\ clock - dp_before.last_pressed = 250
    /\ pressed = KEY_A

\* C8: in a frame where the jump key is freshly pressed delta_y is -20 when
\* apply_gravity is called, wherever the player is and whatever delta_y
\* was, and the frame ends with delta_y = -19.
C8_JumpUnconditional ==
    KEY_SPACE \in key_pressed =>
        /\ pc = "physics" => player.delta_y = -20
        /\ pc = "draw" => before.delta_y = -20 /\ player.delta_y = -19

\* C8 witness: a jump in mid-air (the player has not touched anything).
C8_Witness ==
    /\ pc = "draw"
    /\ KEY_SPACE \in key_pressed
    /\ before.y < 200
    /\ player.delta_y = -19
    /\ player.y = before.y - 19

\* C9: the delta_x handed to apply_gravity is the dash part (-50 for a
\* double-press of move-left, +50 for move-right, 0 for up, down or none)
\* plus the held part (-5 with left held, +5 with right held, both when
\* both are held).
C9_ImpulseComposition ==
    pc = "physics" =>
        player.delta_x =
            (IF pressed = KEY_A THEN -50 ELSE IF pressed = KEY_D THEN 50 ELSE 0)
            + (IF KEY_A \in key_down THEN -5 ELSE 0)
            + (IF KEY_D \in key_down THEN 5 ELSE 0)

\* C9 witness: a dash to the right while left is held as well.
C9_Witness ==
    /\ pc = "physics"
    /\ pressed = KEY_D
    /\ KEY_A \in key_down
    /\ player.delta_x = 50

\* the smallest member of a non-empty set of indices
First(S) == CHOOSE i \in S : \A j \in S : i <= j

\* C11: after a call of is_double_press in which a movement key is freshly
\* pressed, the detector holds the last freshly pressed key in scan order
\* (up, left, down, right) and the time of that press, whether or not a
\* press matched; after a call without a fresh movement key it is unchanged.
C11_DetectorUpdate ==
    pc = "physics" =>
        IF FreshAt # {}
        THEN /\ double_press.key = keys[Last(FreshAt)]
             /\ double_press.last_pressed = clock
        ELSE double_press = dp_before

\* C11 witness: two keys are freshly pressed, the first matches, and the
\* detector is left holding the second.
C11_Witness ==
    /\ pc = "physics"
    /\ key_pressed = {KEY_A, KEY_D}
    /\ pressed = KEY_A
    /\ dp_before.last_pressed < clock
    /\ double_press = [key |-> KEY_D, last_pressed |-> clock]

\* C19: in one call of is_double_press the only key that can give the event
\* is the first freshly pressed key in scan order (and only when the detector
\* held that key on entry); a second press of a key within 300 ms gives no
\* event when a key earlier in the scan is freshly pressed in the same frame.
C19_OnlyFirstFresh ==
    pc = "physics" =>
        /\ pressed # KEY_NULL =>
              /\ FreshAt # {}
              /\ pressed = keys[First(FreshAt)]
              /\ pressed = dp_before.key
        /\ \A i \in FreshAt :
              (\E j \in FreshAt : j < i) => pressed # keys[i]

\* C19 witness: left is pressed again 250 ms after its last press, up is
\* freshly pressed in the same frame, and there is no event.
C19_Witness ==
    /\ pc = "physics"
    /\ key_pressed = {KEY_W, KEY_A}
    /\ dp_before.key = KEY_A
    /\ clock - dp_before.last_pressed = 250
    /\ pressed = KEY_NULL

\* C13: a fresh press is judged against the press recorded just before it
\* and no earlier one: of three presses of one key in three frames, with no
\* other key pressed in between, the third gives the event if and only if it
\* comes less than 300 ms after the second, however long after the first;
\* and of exactly two presses, of one key and less than 300 ms apart, the
\* second gives the event and the first does not.
C13_OnlyPreviousPress ==
    /\ ( /\ Len(presses) = 3
         /\ presses[1].key = presses[2].key /\ presses[2].key = presses[3].key
         /\ presses[1].at < presses[2].at /\ presses[2].at < presses[3].at )
       => (presses[3].event <=> presses[3].at - presses[2].at < 300)
    /\ ( /\ Len(presses) = 2
         /\ presses[1].key = presses[2].key
         /\ presses[1].at < presses[2].at
         /\ presses[2].at - presses[1].at < 300 )
       => (~presses[1].event /\ presses[2].event)

\* C13 witness: three presses of left; the third comes 100 ms after the
\* second and 400 ms after the first, and gives the event.
C13_Witness ==
    /\ Len(presses) = 3
    /\ \A i \in 1..3 : presses[i].key = KEY_A
    /\ presses[3].at - presses[2].at = 100
    /\ presses[3].at - presses[1].at = 400
    /\ ~presses[2].event
    /\ presses[3].event

\* C14 as claimed: whenever the player starts a frame entirely left of a
\* wall and the box around its movement intersects that wall, the frame ends
\* with player.x = wall.x - player.width, and starting entirely right of it
\* with player.x = wall.x + wall.width.
C14_Original ==
    pc = "draw" =>
        LET r == CallRect
        IN  \A i \in 1..Len(walls) :
                Collides(r, walls[i]) =>
                    /\ before.x + before.width <= walls[i].x
                           => player.x = walls[i].x - before.width
                    /\ walls[i].x + walls[i].width <= before.x
                           => player.x = walls[i].x + walls[i].width

\* C14: whenever the player starts a frame entirely left of a wall and the
\* box around its movement intersects that wall, the wall's horizontal test
\* fires, and the frame ends with player.x = wall.x - player.width unless
\* the horizontal test of a wall later in the list fires too; starting
\* entirely right of the wall, with player.x = wall.x + wall.width under the
\* same condition. This is so for every displacement up to 55, also where
\* the tentative position lies beyond the wall.
C14_NoTunnelling ==
    pc = "draw" =>
        LET r == CallRect
            h == FiredH
        IN  \A i \in 1..Len(walls) :
                LET left  == before.x + before.width <= walls[i].x
                    right == walls[i].x + walls[i].width <= before.x
                IN  (Collides(r, walls[i]) /\ (left \/ right)) =>
                        /\ i \in h
                        /\ (\A j \in h : j <= i) =>
                               player.x = IF left
                                          THEN walls[i].x - before.width
                                          ELSE walls[i].x + walls[i].width

\* C14 witness: a dash with the key held, 55 to the right, whose tentative
\* position lies completely beyond the only wall in its way, ends against
\* the near side of that wall.
C14_Witness ==
    /\ pc = "draw"
    /\ before.delta_x = 55
    /\ \E i \in 1..Len(walls) :
          /\ FiredH = {i}
          /\ before.x + before.width <= walls[i].x
          /\ walls[i].x + walls[i].width <= before.x + before.delta_x
          /\ player.x = walls[i].x - before.width

\* C15: the walls move the position only: the delta_y a frame leaves is 0
\* where the floor probe overlapped the floor and min(delta_y + 1, 10) was
\* positive, and min(delta_y + 1, 10) otherwise; it is what the same call
\* leaves with no walls at all, also where the player landed on a wall or
\* hit one from below.
C15_WallsKeepDeltaY ==
    pc = "draw" =>
        LET g == Min(before.delta_y + 1, 10)
        IN  /\ player.delta_y = IF CallFloorHit /\ g > 0 THEN 0 ELSE g
            /\ player.delta_y = apply_gravity(before, floor, <<>>).delta_y

\* C15 witness: a fall at full speed lands on top of a wall, clear of the
\* floor, and delta_y is still 10.
C15_Witness ==
    /\ pc = "draw"
    /\ ~CallFloorHit
    /\ before.delta_y = 10
    /\ \E i \in FiredV :
          /\ before.y + before.height <= walls[i].y
          /\ player.y = walls[i].y - before.height
    /\ player.y < CallNextY
    /\ player.delta_y = 10

\* C16: on the floor and walls main builds, a frame that starts with the
\* player over the floor (-120 < x < 900) and not below its top (y <= 560),
\* and ends with the player over the floor, ends with the player not below
\* its top, whatever the impulses; so from (100,100) the player stays at
\* y <= 560 for as long as it has stayed over the floor.
C16_FloorHolds ==
    /\ pc = "physics" => player.y <= 560
    /\ ( /\ pc = "draw"
         /\ -120 < before.x /\ before.x < 900
         /\ before.y <= 560
         /\ -120 < player.x /\ player.x < 900 )
       => player.y <= 560

\* C16 witness: a fall at full speed with a dash to the right, ending over
\* the last units of the floor, is stopped on the floor.
C16_Witness ==
    /\ pc = "draw"
    /\ before.delta_x = 55
    /\ before.delta_y = 10
    /\ before.y = 555
    /\ player.x = 895
    /\ player.y = 560

\* C17: on the floor and walls main builds, a frame that starts with the
\* player not below the floor top (y <= 560) and overlapping neither wall
\* ends with the player overlapping neither wall, whatever the impulses; so
\* from (100,100) the player never overlaps a wall for as long as it has
\* stayed at y <= 560.
C17_NoClipping ==
    /\ pc = "physics" => \A i \in 1..Len(walls) : ~Overlaps(player, walls[i])
    /\ ( /\ pc = "draw"
         /\ before.y <= 560
         /\ \A i \in 1..Len(walls) : ~Overlaps(before, walls[i]) )
       => \A i \in 1..Len(walls) : ~Overlaps(player, walls[i])

\* C17 witness: a dash down and to the right into the corner of the second
\* wall, from above and left of it, ends corner to corner with the wall.
C17_Witness ==
    /\ pc = "draw"
    /\ before.x < 580 /\ before.y < 180
    /\ CallNextX > 580 /\ CallNextY > 180
    /\ FiredH = {2} /\ FiredV = {2}
    /\ player.x = 580 /\ player.y = 180

\* C18: with no key ever pressed or held the player comes to (100, 460), on
\* top of the first wall, and from some frame on stays there for good, with
\* delta_y 10.
C18_Settles ==
    <>[](player.x = 100 /\ player.y = 460 /\ player.delta_y = 10)

\* C18 witness: a frame that starts at rest on the first wall with delta_y 10
\* and is held there by the wall's vertical test.
C18_Witness ==
    /\ pc = "draw"
    /\ key_down = {}
    /\ before.x = 100 /\ before.y = 460 /\ before.delta_y = 10
    /\ FiredV = {1}
    /\ player.x = 100 /\ player.y = 460 /\ player.delta_y = 10

=============================================================================
